---- MODULE Spec2Model ----
(***************************************************************************)
(* Model of eaglefrac-pressurized: the time loop of PDSSolid::run with its *)
(* Newton / active-set iteration, the step cut on non-convergence, the     *)
(* adaptive-refinement redo and the fatal path through main, and the       *)
(* stress decomposition of PhaseFieldSolver.                               *)
(*                                                                         *)
(* Times and step sizes are exact integers in units of the smallest step   *)
(* a configuration can reach: for the parameter file of the repository     *)
(* one unit is 1e-9, so the table step 1e-2 is 10000000 and the minimum    *)
(* step 1e-9 is 1.  Phase-field values are scaled by 2 (intact = 2,        *)
(* broken = 0, the refinement threshold 0.5 = 1).  Vectors hold the        *)
(* phase-field block only, one degree of freedom per active cell of a      *)
(* 1-D mesh whose cells are kept as the sequence of their refinement       *)
(* levels.                                                                 *)
(***************************************************************************)
EXTENDS Integers, Sequences, FiniteSets, TLC

VARIABLES
  pc,                 \* position in main / run
  data,               \* the parameters read from the input file
  mesh,               \* triangulation: the refinement level of every active cell
  time, time_step, old_time_step, time_step_number,
  solution, old_solution, old_old_solution,
  use_old_time_step_phi,
  active_set, old_active_set,
  newton_step, error,
  pressure_owned_solution,
  exit_status,
  \* history variables (not program state)
  converged,          \* the Newton loop of the current attempt was left by the break
  refine_signalled,   \* the last answer of prepare_phase_field_refinement
  n_shifts,           \* calls of update_old_solution so far
  step_sizes,         \* step size of every attempt of the current time step
  n_cuts,             \* step cuts of the current time step
  ever_converged,     \* some attempt of the run converged
  log,                \* width solves, outputs and postprocessings, in order
  diagnostic,         \* main printed the "Aborting!" message
  ops,                \* the solver operations of the current attempt, in order
  refine_ops,         \* the refiner and transfer calls after the current attempt
  \* stress decomposition (PhaseFieldSolver::get_stress_decomposition)
  spc, dim, strain_tensor, strain_tensor_plus,
  stress_tensor_plus, stress_tensor_minus,
  \* residual assembly (PhaseFieldSolver::assemble_rhs_vector)
  apc,                \* position of the caller of assemble_rhs_vector
  locally_owned,      \* the cells this process owns
  rhs_vector,
  local_rhs,          \* the local_rhs each call computed (it is a local of the call)
  cells_visited,      \* the cells whose loop body the last call ran, in order
  \* the Newton loop on several workers
  w_pc,               \* position of every worker in the loop body
  w_newton_step,
  w_active_set,       \* every worker's part of the active set
  w_old_active_set,
  w_residual,         \* every worker's part of the squared residual norm
  w_error,            \* what residual_norm() returned to every worker
  w_changed,          \* what active_set_changed() returned to every worker
  \* PDSSolid::impose_pressure_values
  ipc,                \* position of the caller of impose_pressure_values
  max_value,
  visit_order         \* the order in which the cell iterator visits the cells

runVars == <<pc, data, mesh, time, time_step, old_time_step, time_step_number,
             solution, old_solution, old_old_solution, use_old_time_step_phi,
             active_set, old_active_set, newton_step, error,
             pressure_owned_solution, exit_status, converged, refine_signalled,
             n_shifts, step_sizes, n_cuts, ever_converged, log, diagnostic, ops, refine_ops>>

stressVars == <<spc, dim, strain_tensor, strain_tensor_plus,
                stress_tensor_plus, stress_tensor_minus>>

assemblyVars == <<apc, locally_owned, rhs_vector, local_rhs, cells_visited>>

workerVars == <<w_pc, w_newton_step, w_active_set, w_old_active_set, w_residual,
                w_error, w_changed>>

pressureVars == <<ipc, max_value, visit_order>>

vars == <<runVars, stressVars, assemblyVars, workerVars, pressureVars>>

----------------------------------------------------------------------------
(* Bounds of the model *)

\* max_newton_iter is drawn from 1 .. MaxNewtonIterBound
MaxNewtonIterBound == 3

\* residual norms are drawn from 0 .. MaxError
MaxError == 2

\* strain entries are drawn from -MaxStrain .. MaxStrain
MaxStrain == 1

\* the run is followed for at most MaxTimeSteps time steps (a step cut to 1e-9
\* would otherwise be followed by millions of steps)
MaxTimeSteps == 2

\* the history variables step_sizes and n_cuts record at most this many
\* attempts of one time step
MaxAttemptsRecorded == 9

(* Program constants *)

\* gamma_c and 1/e of PhaseFieldSolver (e = 1e-6)
gamma_c == 1

e_inverse == 1000000

\* std::numeric_limits<double>::max(), the value error holds before it is computed
DoubleMax == 1000000000

\* the divisor of the step cut
CutFactor == 10

\* the Lame parameters of PhaseFieldSolver
mu == 1000

lambda == 1000000

----------------------------------------------------------------------------
(* Input data: InputData::PhaseFieldPressurizedData *)

\* The parameter file of the repository: Time stepping table = (0, 1e-2),
\* Minimum time step = 1e-9, T max = 1e-2, in units of 1e-9.
ParameterFileTable == << <<0, 10000000>> >>

Config(table, minimum, tmax, iter, adaptive) ==
  [time_stepping_table |-> table,
   minimum_time_step   |-> minimum,
   t_max               |-> tmax,
   max_newton_iter     |-> iter,
   newton_tolerance    |-> 1,
   n_adaptive_steps    |-> adaptive,
   initial_refinement_level |-> 0,
   n_coarse_cells      |-> 1,
   phi_refinement_value |-> 1]

\* a single step with adaptive refinement on a mesh file of two cells
TwoCellConfig ==
  [Config(<< <<0, 100>> >>, 50, 100, 2, 1) EXCEPT !.n_coarse_cells = 2]

\* The inputs of the model: the timing of the parameter file; a two-entry table
\* over several time steps; a table whose step size lies below the minimum time
\* step, with a positive and with a zero end time; and a single step with
\* adaptive refinement, on a mesh file of one cell and of two.
Configs ==
  UNION { { Config(ParameterFileTable, 1, 10000000, m, 0),
            Config(<< <<0, 100>>, <<100, 20>> >>, 5, 120, m, 0),
            Config(<< <<0, 2>> >>, 5, 4, m, 0),
            Config(<< <<0, 2>> >>, 5, 0, m, 0),
            Config(<< <<0, 100>> >>, 5, 100, m, 1),
            TwoCellConfig } : m \in 1..MaxNewtonIterBound }

\* data.get_time_step(time): the step size of the last table entry whose time
\* threshold is not after time
RECURSIVE TableLookup(_, _, _)
TableLookup(table, t, i) ==
  IF i = 1 \/ table[i][1] <= t THEN table[i][2] ELSE TableLookup(table, t, i - 1)

get_time_step(t) ==
  TableLookup(data.time_stepping_table, t, Len(data.time_stepping_table))

\* data.pressure_function.value(Point<1>(time)): a linear ramp
pressure_function(t) == 3 * t + 1

----------------------------------------------------------------------------
(* Mesh and vectors *)

Dofs(m) == 1..Len(m)

\* phase-field values a solve or the initial condition can produce: broken (0)
\* and intact (1.0, written 2)
PhiValues == {0, 2}

Vectors(m) == [Dofs(m) -> PhiValues]

ZeroVector(m) == [i \in Dofs(m) |-> 0]

\* read_mesh and refine_global(initial_refinement_level): the cells of the mesh
\* file, each refined to the initial level
CoarseMesh == [c \in 1..data.n_coarse_cells |-> data.initial_refinement_level]

\* mutant: the maximum level is one too high
max_refinement_level_plus_one ==
  data.initial_refinement_level + data.n_adaptive_steps + 1

max_refinement_level == data.initial_refinement_level + data.n_adaptive_steps

\* Mesher::prepare_phase_field_refinement: flag the cells below the maximum level
\* whose phase-field value is below the threshold
RefineFlags(v, m) ==
  { c \in 1..Len(m) : m[c] < max_refinement_level /\ v[c] < data.phi_refinement_value }

prepare_phase_field_refinement(v, m) == RefineFlags(v, m) # {}

\* triangulation.execute_coarsening_and_refinement: bisect the flagged cells
RECURSIVE RefineCells(_, _, _)
RefineCells(m, flags, c) ==
  IF c > Len(m) THEN <<>>
  ELSE (IF c \in flags THEN <<m[c] + 1, m[c] + 1>> ELSE <<m[c]>>)
       \o RefineCells(m, flags, c + 1)

execute_coarsening_and_refinement(m, flags) == RefineCells(m, flags, 1)

\* SolutionTransfer::interpolate: the degree of freedom of an unrefined cell
\* keeps its value, the children of a bisected cell take the value of the cell
RECURSIVE InterpolateCells(_, _, _)
InterpolateCells(v, flags, c) ==
  IF c > Len(v) THEN <<>>
  ELSE (IF c \in flags THEN <<v[c], v[c]>> ELSE <<v[c]>>)
       \o InterpolateCells(v, flags, c + 1)

interpolate(v, flags) == InterpolateCells(v, flags, 1)

\* PDSSolid::impose_pressure_values(max_value): the value assigned in every
\* cell, max_value where the mean phase-field value is below 0.9 and 0
\* elsewhere.  run() never calls it.
impose_pressure_values(value, v) ==
  [c \in DOMAIN v |-> IF 5 * v[c] < 9 THEN value ELSE 0]

----------------------------------------------------------------------------
(* Stress decomposition: idle values while the run is modelled *)

StressIdle ==
  /\ spc = "idle"
  /\ dim = 2
  /\ strain_tensor = <<>>
  /\ strain_tensor_plus = <<>>
  /\ stress_tensor_plus = <<>>
  /\ stress_tensor_minus = <<>>

(* Residual assembly and the workers: idle values while the run is modelled *)

AssemblyIdle ==
  /\ apc = "idle"
  /\ locally_owned = {}
  /\ rhs_vector = <<>>
  /\ local_rhs = <<>>
  /\ cells_visited = <<>>

PressureIdle ==
  /\ ipc = "idle"
  /\ max_value = 0
  /\ visit_order = <<>>

WorkersIdle ==
  /\ w_pc = <<>>
  /\ w_newton_step = <<>>
  /\ w_active_set = <<>>
  /\ w_old_active_set = <<>>
  /\ w_residual = <<>>
  /\ w_error = <<>>
  /\ w_changed = <<>>

----------------------------------------------------------------------------
(* main and PDSSolid::run *)

\* the state after construction, for an input file out of configs
InitWith(configs) ==
  /\ pc = "start"
  /\ data \in configs
  /\ mesh = <<>>
  /\ time = 0
  /\ time_step = 0
  /\ old_time_step = 0
  /\ time_step_number = 0
  /\ solution = <<>>
  /\ old_solution = <<>>
  /\ old_old_solution = <<>>
  /\ use_old_time_step_phi = FALSE
  /\ active_set = {}
  /\ old_active_set = {}
  /\ newton_step = 0
  /\ error = DoubleMax
  /\ pressure_owned_solution = <<>>
  /\ exit_status = -1
  /\ converged = FALSE
  /\ refine_signalled = FALSE
  /\ n_shifts = 0
  /\ step_sizes = <<>>
  /\ n_cuts = 0
  /\ ever_converged = FALSE
  /\ log = <<>>
  /\ diagnostic = FALSE
  /\ ops = <<>>
  /\ refine_ops = <<>>
  /\ StressIdle
  /\ AssemblyIdle
  /\ WorkersIdle
  /\ PressureIdle

Init == InitWith(Configs)

\* The meshes n passes of Mesher::refine_region can leave: every pass bisects
\* the cells of the region, whichever they are
RECURSIVE PrerefinedMeshes(_, _)
PrerefinedMeshes(m, n) ==
  IF n = 0 THEN {m}
  ELSE UNION { PrerefinedMeshes(RefineCells(m, region, 1), n - 1) :
               region \in SUBSET (1..Len(m)) }

\* run() up to the time loop: read the input, refine, set the initial values
Setup ==
  /\ pc = "start"
  /\ \E m \in PrerefinedMeshes(CoarseMesh, data.n_adaptive_steps) :
       /\ mesh' = m
       /\ solution' \in Vectors(m)
       /\ old_solution' = ZeroVector(m)
       /\ old_old_solution' = ZeroVector(m)
       \* setup_dofs sizes the pressure vectors
       /\ pressure_owned_solution' = ZeroVector(m)
  /\ time' = 0
  /\ time_step' = get_time_step(0)
  /\ old_time_step' = get_time_step(0)
  /\ time_step_number' = 0
  /\ pc' = "while"
  /\ UNCHANGED <<data, use_old_time_step_phi, active_set, old_active_set, newton_step,
                 error, exit_status, converged,
                 refine_signalled, n_shifts, step_sizes, n_cuts, ever_converged, log,
                 diagnostic,
                 ops, refine_ops>>
  /\ UNCHANGED <<stressVars, assemblyVars, workerVars, pressureVars>>

\* mutant: a new time step goes on with the step size the last one ended with
NewTimeStepKeepsCut == time_step

\* time_step = data.get_time_step(time) at the head of the time loop
NewTimeStep == get_time_step(time)

\* std::make_pair(time_step, old_time_step): the pair handed to the Newton solve
\* of an attempt; neither member is written while the Newton loop runs
time_steps == <<time_step, old_time_step>>

\* while (time < data.t_max): the head of a time step, with update_old_solution
BeginTimeStep ==
  /\ pc = "while"
  /\ time < data.t_max
  /\ time_step_number < MaxTimeSteps
  /\ time_step' = NewTimeStep
  /\ time' = time + NewTimeStep
  /\ time_step_number' = time_step_number + 1
  /\ old_old_solution' = old_solution
  /\ old_solution' = solution
  /\ n_shifts' = n_shifts + 1
  /\ step_sizes' = <<>>
  /\ n_cuts' = 0
  /\ pc' = "redo"
  /\ UNCHANGED <<data, mesh, old_time_step, solution, use_old_time_step_phi, active_set,
                 old_active_set, newton_step, error, pressure_owned_solution,
                 exit_status, converged, refine_signalled, ever_converged, log,
                 diagnostic,
                 ops, refine_ops>>
  /\ UNCHANGED <<stressVars, assemblyVars, workerVars, pressureVars>>

\* the time loop ends and run() returns
EndTimeLoop ==
  /\ pc = "while"
  /\ ~(time < data.t_max)
  /\ pc' = "done"
  /\ UNCHANGED <<data, mesh, time, time_step, old_time_step, time_step_number,
                 solution, old_solution, old_old_solution, use_old_time_step_phi,
                 active_set, old_active_set, newton_step, error,
                 pressure_owned_solution, exit_status, converged, refine_signalled,
                 n_shifts, step_sizes, n_cuts, ever_converged, log, diagnostic,
                 ops, refine_ops>>
  /\ UNCHANGED <<stressVars, assemblyVars, workerVars, pressureVars>>

\* mutant: every attempt starts with an empty previous active set
AttemptStartActiveSetEmpty == {}

\* IndexSet old_active_set(phase_field_solver.active_set)
AttemptStartActiveSet == active_set

\* mutant: the pressure is imposed by the first attempt of a time step only
ImposedPressureOncePerStep ==
  IF step_sizes = <<>> THEN [c \in Dofs(mesh) |-> pressure_function(time)]
  ELSE pressure_owned_solution

\* double pressure_value = data.pressure_function.value(Point<1>(time));
\* pressure_owned_solution = pressure_value: every entry gets the value
ImposedPressure == [c \in Dofs(mesh) |-> pressure_function(time)]

\* redo_time_step: the start of one attempt.  impose_displacement_on_solution
\* acts on the displacement block, which the vectors of the model leave out.
RedoTimeStep ==
  /\ pc = "redo"
  /\ pressure_owned_solution' = ImposedPressure
  /\ old_active_set' = AttemptStartActiveSet
  /\ newton_step' = 0
  /\ converged' = FALSE
  /\ step_sizes' = IF Len(step_sizes) < MaxAttemptsRecorded
                    THEN Append(step_sizes, time_step) ELSE step_sizes
  /\ ops' = <<>>
  /\ refine_ops' = <<>>
  /\ pc' = "newton"
  /\ UNCHANGED <<data, mesh, time, time_step, old_time_step, time_step_number,
                 solution, old_solution, old_old_solution, use_old_time_step_phi,
                 active_set, error, exit_status, refine_signalled, n_shifts, n_cuts,
                 ever_converged, log, diagnostic>>
  /\ UNCHANGED <<stressVars, assemblyVars, workerVars, pressureVars>>

\* PhaseFieldSolver::active_set_changed(old_active_set)
active_set_changed(current, old) == current # old

\* the break condition of the Newton loop
BreakCondition(current, old, err) ==
  active_set_changed(current, old) /\ err < data.newton_tolerance

\* mutant: the norm is taken before the residual is assembled and masked
EvaluationOpsNormFirst(k) ==
  << <<k, "residual_norm", "">>,
     <<k, "assemble_coupled_system", "include_pressure = true, assemble_matrix = false">>,
     <<k, "compute_active_set", "">>,
     <<k, "all_constraints.set_zero", "residual">> >>

\* the calls of an iteration with newton_step > 0, up to the break condition
EvaluationOps(k) ==
  << <<k, "assemble_coupled_system", "include_pressure = true, assemble_matrix = false">>,
     <<k, "compute_active_set", "">>,
     <<k, "all_constraints.set_zero", "residual">>,
     <<k, "residual_norm", "">> >>

\* mutant: the first pass evaluates and tests as well
AfterFirstNewtonStepAlways == TRUE

\* if (newton_step > 0): "end first newton step condition"
AfterFirstNewtonStep == newton_step > 0

\* one pass through the body of the Newton loop
NewtonIteration ==
  /\ pc = "newton"
  /\ newton_step < data.max_newton_iter
  /\ IF AfterFirstNewtonStep
     THEN \E new_set \in SUBSET Dofs(mesh), err \in 0..MaxError :
            /\ active_set' = new_set
            /\ error' = err
            /\ IF BreakCondition(new_set, old_active_set, err)
               THEN /\ converged' = TRUE
                    /\ ever_converged' = TRUE
                    /\ ops' = ops \o EvaluationOps(newton_step)
                                 \o << <<newton_step, "break condition", "break">> >>
                    /\ pc' = "after_newton"
                    /\ UNCHANGED <<old_active_set, solution, newton_step>>
               ELSE /\ old_active_set' = new_set
                    /\ solution' \in Vectors(mesh)
                    /\ ops' = ops \o EvaluationOps(newton_step)
                                 \o << <<newton_step, "break condition", "">>,
                                       <<newton_step, "solve_coupled_newton_step", "">> >>
                    /\ newton_step' = newton_step + 1
                    /\ UNCHANGED <<converged, ever_converged, pc>>
     ELSE /\ error' = DoubleMax
          /\ solution' \in Vectors(mesh)
          /\ ops' = Append(ops, <<newton_step, "solve_coupled_newton_step", "">>)
          /\ newton_step' = newton_step + 1
          /\ UNCHANGED <<active_set, old_active_set, converged, ever_converged, pc>>
  /\ UNCHANGED <<data, mesh, time, time_step, old_time_step, time_step_number,
                 old_solution, old_old_solution, use_old_time_step_phi,
                 pressure_owned_solution, exit_status, refine_signalled, n_shifts,
                 step_sizes, n_cuts, log, diagnostic, refine_ops>>
  /\ UNCHANGED <<stressVars, assemblyVars, workerVars, pressureVars>>

\* the Newton loop ends because the iteration budget is used up
NewtonLoopEnd ==
  /\ pc = "newton"
  /\ ~(newton_step < data.max_newton_iter)
  /\ error' = DoubleMax
  /\ pc' = "after_newton"
  /\ UNCHANGED <<data, mesh, time, time_step, old_time_step, time_step_number,
                 solution, old_solution, old_old_solution, use_old_time_step_phi,
                 active_set, old_active_set, newton_step,
                 pressure_owned_solution, exit_status, converged, refine_signalled,
                 n_shifts, step_sizes, n_cuts, ever_converged, log, diagnostic,
                 ops, refine_ops>>
  /\ UNCHANGED <<stressVars, assemblyVars, workerVars, pressureVars>>

\* mutant: no step is too small
TimeStepNeverTooSmall(dt, minimum) == FALSE

\* mutant: the reduced step is compared with <= instead of <
TimeStepTooSmallOrEqual(dt, minimum) == dt <= CutFactor * minimum

\* mutant: the step itself, not the reduced step, is compared with the minimum
TimeStepTooSmallNoDivision(dt, minimum) == dt < minimum

\* time_step/10 < data.minimum_time_step, in exact arithmetic
TimeStepTooSmall(dt, minimum) == dt < CutFactor * minimum

\* mutant: the reduced step is not added back to the time
CutTimeDropsStep(t, dt) == t - dt

\* mutant: the target time is kept when the step is cut
CutTimeKeepsTarget(t, dt) == t

\* time -= time_step; time_step /= 10.0; time += time_step
CutTime(t, dt) == (t - dt) + dt \div CutFactor

\* mutant: the step is halved
CutStepHalved(dt) == dt \div 2

\* time_step /= 10.0
CutStep(dt) == dt \div CutFactor

\* mutant: the budget test fires one iteration early
StepDivergedOneEarly == newton_step = data.max_newton_iter - 1

\* mutant: the budget test is strict
StepDivergedStrict == newton_step > data.max_newton_iter

\* if (newton_step == data.max_newton_iter)
StepDiverged == newton_step = data.max_newton_iter

\* mutant: the solution is restored from the step before the previous one
RestoredSolutionOldOld == old_old_solution

\* phase_field_solver.solution = phase_field_solver.old_solution
RestoredSolution == old_solution

\* no convergence and the reduced step is too small: throw NoConvergence
ThrowNoConvergence ==
  /\ pc = "after_newton"
  /\ StepDiverged
  /\ TimeStepTooSmall(time_step, data.minimum_time_step)
  /\ pc' = "thrown"
  /\ UNCHANGED <<data, mesh, time, time_step, old_time_step, time_step_number,
                 solution, old_solution, old_old_solution, use_old_time_step_phi,
                 active_set, old_active_set, newton_step, error,
                 pressure_owned_solution, exit_status, converged, refine_signalled,
                 n_shifts, step_sizes, n_cuts, ever_converged, log, diagnostic,
                 ops, refine_ops>>
  /\ UNCHANGED <<stressVars, assemblyVars, workerVars, pressureVars>>

\* no convergence: cut the time step and redo it
CutTimeStep ==
  /\ pc = "after_newton"
  /\ StepDiverged
  /\ ~TimeStepTooSmall(time_step, data.minimum_time_step)
  /\ time' = CutTime(time, time_step)
  /\ time_step' = CutStep(time_step)
  /\ solution' = RestoredSolution
  /\ use_old_time_step_phi' = TRUE
  /\ n_cuts' = IF n_cuts < MaxAttemptsRecorded THEN n_cuts + 1 ELSE n_cuts
  /\ pc' = "redo"
  /\ UNCHANGED <<data, mesh, old_time_step, time_step_number, old_solution,
                 old_old_solution, active_set, old_active_set, newton_step, error,
                 pressure_owned_solution, exit_status, converged, refine_signalled,
                 n_shifts, step_sizes, ever_converged, log, diagnostic,
                 ops, refine_ops>>
  /\ UNCHANGED <<stressVars, assemblyVars, workerVars, pressureVars>>

\* mutant: the refiner is asked whatever n_adaptive_steps is
RefinerAskedAlways == TRUE

\* if (data.n_adaptive_steps > 0): whether prepare_phase_field_refinement is called
RefinerAsked == data.n_adaptive_steps > 0

\* the refiner calls after an attempt that did not use up the budget
RefinerCalls ==
  IF RefinerAsked THEN << "prepare_phase_field_refinement" >> ELSE <<>>

\* whether the refiner is asked, and what it answers
RefinementNeeded ==
  /\ RefinerAsked
  /\ prepare_phase_field_refinement(solution, mesh)

\* what exectute_adaptive_refinement works on: the triangulation with its
\* refinement flags, the three vectors, and the solution transfer with the
\* vectors registered in it (tmp) and the cells refined since then
TransferState ==
  [mesh |-> mesh,
   flags |-> RefineFlags(solution, mesh),
   solution |-> solution,
   old_solution |-> old_solution,
   old_old_solution |-> old_old_solution,
   tmp |-> <<>>,
   refined |-> {}]

\* mutant: the old solution is registered in place of the current one
SnapshotVectorsMiswired(st) == <<st.old_solution, st.old_solution, st.old_old_solution>>

\* the vectors handed to prepare_for_coarsening_and_refinement: tmp[0..2]
SnapshotVectors(st) == <<st.solution, st.old_solution, st.old_old_solution>>

\* mutant: tmp_owned1 and tmp_owned2 are assigned the wrong way round
TransferTargetsSwapped(out) == <<out[1], out[3], out[2]>>

\* tmp1[0] = &solution; old_solution = tmp_owned1; old_old_solution = tmp_owned2
TransferTargets(out) == <<out[1], out[2], out[3]>>

\* one call of exectute_adaptive_refinement.  setup_dofs distributes the degrees
\* of freedom of the new mesh and reinitialises the vectors to that size, with
\* zeros; interpolate fills the vectors from what was registered.
TransferStep(st, op) ==
  CASE op = "prepare_for_coarsening_and_refinement" ->
         [st EXCEPT !.tmp = SnapshotVectors(st), !.refined = {}]
    [] op = "execute_coarsening_and_refinement" ->
         [st EXCEPT !.mesh = execute_coarsening_and_refinement(st.mesh, st.flags),
                    !.refined = st.flags,
                    !.flags = {}]
    [] op = "setup_dofs" ->
         [st EXCEPT !.solution = ZeroVector(st.mesh),
                    !.old_solution = ZeroVector(st.mesh),
                    !.old_old_solution = ZeroVector(st.mesh)]
    [] op = "interpolate" ->
         LET tmp1 == TransferTargets([i \in 1..3 |-> interpolate(st.tmp[i], st.refined)])
         IN [st EXCEPT !.solution = tmp1[1],
                       !.old_solution = tmp1[2],
                       !.old_old_solution = tmp1[3]]

RECURSIVE ApplyTransfer(_, _, _)
ApplyTransfer(st, calls, i) ==
  IF i > Len(calls) THEN st
  ELSE ApplyTransfer(TransferStep(st, calls[i]), calls, i + 1)

\* mutant: the snapshots are interpolated before the maps are rebuilt
TransferProtocolInterpolatesEarly ==
  << "prepare_for_coarsening_and_refinement",
     "execute_coarsening_and_refinement",
     "interpolate",
     "setup_dofs" >>

\* the calls of exectute_adaptive_refinement, in the order of its statements
TransferProtocol ==
  << "prepare_for_coarsening_and_refinement",
     "execute_coarsening_and_refinement",
     "setup_dofs",
     "interpolate" >>

\* exectute_adaptive_refinement, then goto redo_time_step
AdaptiveRefinement ==
  /\ pc = "after_newton"
  /\ ~StepDiverged
  /\ RefinementNeeded
  /\ LET st == ApplyTransfer(TransferState, TransferProtocol, 1)
     IN
       /\ mesh' = st.mesh
       /\ solution' = st.solution
       /\ old_solution' = st.old_solution
       /\ old_old_solution' = st.old_old_solution
  \* setup_dofs sets the size of active_set without clearing it: the set comes
  \* out empty or with its old indices
  /\ active_set' \in {{}, active_set}
  \* setup_dofs reinitialises the pressure vectors
  /\ pressure_owned_solution' = ZeroVector(mesh')
  /\ refine_signalled' = TRUE
  /\ refine_ops' = RefinerCalls \o TransferProtocol
  /\ pc' = "redo"
  /\ UNCHANGED <<data, time, time_step, old_time_step, time_step_number,
                 use_old_time_step_phi, old_active_set, newton_step, error,
                 exit_status, converged, n_shifts, step_sizes,
                 n_cuts, ever_converged, log, diagnostic,
                 ops>>
  /\ UNCHANGED <<stressVars, assemblyVars, workerVars, pressureVars>>

\* the step is accepted: solve for the width
SolveWidth ==
  /\ pc = "after_newton"
  /\ ~StepDiverged
  /\ ~RefinementNeeded
  /\ refine_signalled' = FALSE
  /\ log' = Append(log, <<"width", time_step_number>>)
  /\ refine_ops' = RefinerCalls
  /\ pc' = "output"
  /\ UNCHANGED <<data, mesh, time, time_step, old_time_step, time_step_number,
                 solution, old_solution, old_old_solution, use_old_time_step_phi,
                 active_set, old_active_set, newton_step, error,
                 pressure_owned_solution, exit_status, converged, n_shifts, step_sizes,
                 n_cuts, ever_converged, diagnostic,
                 ops>>
  /\ UNCHANGED <<stressVars, assemblyVars, workerVars, pressureVars>>

\* output_results(time_step_number, time)
OutputResults ==
  /\ pc = "output"
  /\ log' = Append(log, <<"output", time_step_number>>)
  /\ pc' = "postprocessing"
  /\ UNCHANGED <<data, mesh, time, time_step, old_time_step, time_step_number,
                 solution, old_solution, old_old_solution, use_old_time_step_phi,
                 active_set, old_active_set, newton_step, error,
                 pressure_owned_solution, exit_status, converged, refine_signalled,
                 n_shifts, step_sizes, n_cuts, ever_converged, diagnostic,
                 ops, refine_ops>>
  /\ UNCHANGED <<stressVars, assemblyVars, workerVars, pressureVars>>

\* execute_postprocessing(time_step_number, time) and the end of the loop body
ExecutePostprocessing ==
  /\ pc = "postprocessing"
  /\ log' = Append(log, <<"postprocessing", time_step_number>>)
  /\ use_old_time_step_phi' = TRUE
  /\ old_time_step' = time_step
  /\ pc' = IF time >= data.t_max THEN "done" ELSE "while"
  /\ UNCHANGED <<data, mesh, time, time_step, time_step_number, solution,
                 old_solution, old_old_solution, active_set, old_active_set,
                 newton_step, error, pressure_owned_solution, exit_status, converged,
                 refine_signalled, n_shifts, step_sizes, n_cuts, ever_converged,
                 diagnostic,
                 ops, refine_ops>>
  /\ UNCHANGED <<stressVars, assemblyVars, workerVars, pressureVars>>

\* main: problem.run() returned
MainReturn ==
  /\ pc = "done"
  /\ exit_status' = 0
  /\ pc' = "exited"
  /\ UNCHANGED <<data, mesh, time, time_step, old_time_step, time_step_number,
                 solution, old_solution, old_old_solution, use_old_time_step_phi,
                 active_set, old_active_set, newton_step, error,
                 pressure_owned_solution, converged, refine_signalled, n_shifts,
                 step_sizes, n_cuts, ever_converged, log, diagnostic,
                 ops, refine_ops>>
  /\ UNCHANGED <<stressVars, assemblyVars, workerVars, pressureVars>>

\* mutant: the handler returns 0
MainCatchReturnsZero ==
  /\ pc = "thrown"
  /\ diagnostic' = TRUE
  /\ exit_status' = 0
  /\ pc' = "exited"
  /\ UNCHANGED <<data, mesh, time, time_step, old_time_step, time_step_number,
                 solution, old_solution, old_old_solution, use_old_time_step_phi,
                 active_set, old_active_set, newton_step, error,
                 pressure_owned_solution, converged, refine_signalled, n_shifts,
                 step_sizes, n_cuts, ever_converged, log,
                 ops, refine_ops>>
  /\ UNCHANGED <<stressVars, assemblyVars, workerVars, pressureVars>>

\* main: catch (std::exception &exc)
MainCatch ==
  /\ pc = "thrown"
  /\ diagnostic' = TRUE
  /\ exit_status' = 1
  /\ pc' = "exited"
  /\ UNCHANGED <<data, mesh, time, time_step, old_time_step, time_step_number,
                 solution, old_solution, old_old_solution, use_old_time_step_phi,
                 active_set, old_active_set, newton_step, error,
                 pressure_owned_solution, converged, refine_signalled, n_shifts,
                 step_sizes, n_cuts, ever_converged, log,
                 ops, refine_ops>>
  /\ UNCHANGED <<stressVars, assemblyVars, workerVars, pressureVars>>

Next ==
  \/ Setup
  \/ BeginTimeStep
  \/ EndTimeLoop
  \/ RedoTimeStep
  \/ NewtonIteration
  \/ NewtonLoopEnd
  \/ ThrowNoConvergence
  \/ CutTimeStep
  \/ AdaptiveRefinement
  \/ SolveWidth
  \/ OutputResults
  \/ ExecutePostprocessing
  \/ MainReturn
  \/ MainCatch

Spec == Init /\ [][Next]_vars

\* an input file without a step-size floor: Minimum time step = 0
NoFloorConfig == Config(<< <<0, 10>> >>, 0, 10, 1, 0)

\* an input file that permits no Newton iteration: Max Newton steps = 0
NoIterationConfig == Config(<< <<0, 100>> >>, 5, 100, 0, 0)

\* the inputs on a mesh file of one cell with an iteration cap of at most 2,
\* the input without a floor and the input without an iteration
TerminationInit ==
  InitWith({c \in Configs : c.n_coarse_cells = 1 /\ c.max_newton_iter <= 2}
           \cup {NoFloorConfig, NoIterationConfig})

\* run() is one sequential thread of control: whenever it has a next step it
\* takes it
TerminationSpec == TerminationInit /\ [][Next]_vars /\ WF_vars(Next)

TypeOK ==
  /\ pc \in {"start", "while", "redo", "newton", "after_newton", "output",
             "postprocessing", "done", "thrown", "exited"}
  /\ data \in Configs
  /\ solution \in Vectors(mesh)
  /\ old_solution \in [Dofs(mesh) -> {0, 2}]
  /\ old_old_solution \in [Dofs(mesh) -> {0, 2}]
  /\ active_set \subseteq Dofs(mesh)
  /\ newton_step \in 0..data.max_newton_iter
  /\ time_step \in Nat
  /\ time \in Nat

----------------------------------------------------------------------------
(* PhaseFieldSolver::get_stress_decomposition *)

Indices(d) == (0..(d - 1)) \X (0..(d - 1))

UpperIndices(d) == { ij \in Indices(d) : ij[1] <= ij[2] }

\* SymmetricTensor<2,dim>: the entries on and above the diagonal determine it
SymmetricTensors(d, entries) ==
  { [ij \in Indices(d) |-> IF ij[1] <= ij[2] THEN u[ij] ELSE u[<<ij[2], ij[1]>>]] :
      u \in [UpperIndices(d) -> entries] }

ZeroTensor(d) == [ij \in Indices(d) |-> 0]

RECURSIVE TraceFrom(_, _, _)
TraceFrom(t, d, i) == IF i >= d THEN 0 ELSE t[i, i] + TraceFrom(t, d, i + 1)

\* trace(strain_tensor)
trace(t, d) == TraceFrom(t, d, 0)

Max(a, b) == IF a >= b THEN a ELSE b

Minor2(t, i, j) == t[i, i] * t[j, j] - t[i, j] * t[j, i]

Det3(t) ==
    t[0, 0] * (t[1, 1] * t[2, 2] - t[1, 2] * t[2, 1])
  - t[0, 1] * (t[1, 0] * t[2, 2] - t[1, 2] * t[2, 0])
  + t[0, 2] * (t[1, 0] * t[2, 1] - t[1, 1] * t[2, 0])

\* all eigenvalues of t are non-negative: every principal minor is
PositiveSemidefinite(t, d) ==
  /\ \A i \in 0..(d - 1) : t[i, i] >= 0
  /\ \A i, j \in 0..(d - 1) : i < j => Minor2(t, i, j) >= 0
  /\ d = 3 => Det3(t) >= 0

Negated(t, d) == [ij \in Indices(d) |-> -t[ij]]

IsDiagonal(t, d) == \A i, j \in 0..(d - 1) : i # j => t[i, j] = 0

\* the positive-semidefinite tensors with entries in {-1, 0, 1}
PositiveSemidefinite2 ==
  { p \in SymmetricTensors(2, {-1, 0, 1}) : PositiveSemidefinite(p, 2) }

PositiveSemidefinite3 ==
  { p \in SymmetricTensors(3, {-1, 0, 1}) : PositiveSemidefinite(p, 3) }

\* constitutive_model::get_strain_tensor_plus: the eigenvalues of the strain
\* below zero are set to zero.  A diagonal tensor is clipped entry by entry, a
\* tensor without negative eigenvalues is returned as it is, one without
\* positive eigenvalues gives zero; the positive part of any other tensor is
\* not an integer tensor and is left open among the positive-semidefinite
\* tensors with entries in {-1, 0, 1}.
get_strain_tensor_plus(t, d) ==
  IF IsDiagonal(t, d)
    THEN { [ij \in Indices(d) |-> Max(t[ij], 0)] }
  ELSE IF PositiveSemidefinite(t, d) THEN { t }
  ELSE IF PositiveSemidefinite(Negated(t, d), d) THEN { ZeroTensor(d) }
  ELSE IF d = 2 THEN PositiveSemidefinite2 ELSE PositiveSemidefinite3

\* stress_tensor_plus = 2*mu*strain_tensor_plus, then lambda*trace_eps_pos is
\* added to the entries [0][0] and [1][1]
StressPlus(eps, eps_plus, d) ==
  [ij \in Indices(d) |->
     2 * mu * eps_plus[ij]
     + (IF ij \in {<<0, 0>>, <<1, 1>>} THEN lambda * Max(trace(eps, d), 0) ELSE 0)]

\* mutant: the whole trace, not its negative part, enters stress_tensor_minus
StressMinusFullTrace(eps, eps_plus, d) ==
  [ij \in Indices(d) |->
     2 * mu * (eps[ij] - eps_plus[ij])
     + (IF ij \in {<<0, 0>>, <<1, 1>>} THEN lambda * trace(eps, d) ELSE 0)]

\* stress_tensor_minus = 2*mu*(strain_tensor - strain_tensor_plus), then
\* lambda*(trace_eps - trace_eps_pos) is added to the entries [0][0] and [1][1]
StressMinus(eps, eps_plus, d) ==
  [ij \in Indices(d) |->
     2 * mu * (eps[ij] - eps_plus[ij])
     + (IF ij \in {<<0, 0>>, <<1, 1>>}
          THEN lambda * (trace(eps, d) - Max(trace(eps, d), 0)) ELSE 0)]

\* the run is not modelled while the decomposition is
RunControlIdle ==
  /\ pc = "idle"
  /\ time = 0
  /\ time_step = 0
  /\ old_time_step = 0
  /\ time_step_number = 0
  /\ use_old_time_step_phi = FALSE
  /\ active_set = {}
  /\ old_active_set = {}
  /\ newton_step = 0
  /\ error = DoubleMax
  /\ pressure_owned_solution = <<>>
  /\ exit_status = -1
  /\ converged = FALSE
  /\ refine_signalled = FALSE
  /\ n_shifts = 0
  /\ step_sizes = <<>>
  /\ n_cuts = 0
  /\ ever_converged = FALSE
  /\ log = <<>>
  /\ diagnostic = FALSE
  /\ ops = <<>>
  /\ refine_ops = <<>>

RunIdle ==
  /\ RunControlIdle
  /\ data = Config(ParameterFileTable, 1, 10000000, 1, 0)
  /\ mesh = <<>>
  /\ solution = <<>>
  /\ old_solution = <<>>
  /\ old_old_solution = <<>>

StressInit ==
  /\ RunIdle
  /\ AssemblyIdle
  /\ WorkersIdle
  /\ PressureIdle
  /\ spc = "input"
  /\ dim = 2
  /\ strain_tensor = <<>>
  /\ strain_tensor_plus = <<>>
  /\ stress_tensor_plus = <<>>
  /\ stress_tensor_minus = <<>>

\* a caller hands a strain tensor to the decomposition
ChooseStrain ==
  /\ spc = "input"
  /\ \E d \in {2, 3} :
       /\ dim' = d
       /\ strain_tensor' \in SymmetricTensors(d, (-MaxStrain)..MaxStrain)
  /\ spc' = "called"
  /\ UNCHANGED <<strain_tensor_plus, stress_tensor_plus, stress_tensor_minus>>
  /\ UNCHANGED <<runVars, assemblyVars, workerVars, pressureVars>>

\* get_stress_decomposition(strain_tensor, stress_tensor_plus, stress_tensor_minus)
GetStressDecomposition ==
  /\ spc = "called"
  /\ \E eps_plus \in get_strain_tensor_plus(strain_tensor, dim) :
       /\ strain_tensor_plus' = eps_plus
       /\ stress_tensor_plus' = StressPlus(strain_tensor, eps_plus, dim)
       /\ stress_tensor_minus' = StressMinus(strain_tensor, eps_plus, dim)
  /\ spc' = "returned"
  /\ UNCHANGED <<dim, strain_tensor>>
  /\ UNCHANGED <<runVars, assemblyVars, workerVars, pressureVars>>

StressNext ==
  \/ ChooseStrain
  \/ GetStressDecomposition

StressSpec == StressInit /\ [][StressNext]_vars

----------------------------------------------------------------------------
(* PhaseFieldSolver::assemble_rhs_vector.  One quadrature point per cell; the
   strain at that point is an input, the phase-field values are those of the
   cell.  kappa = 1e-12 is kept as a symbol: the pair <<a, b>> stands for the
   number a + b*kappa. *)

\* the cells whose loop body runs, from cell c on: the body of a locally owned
\* cell ends in a break, which leaves the loop over the cells
RECURSIVE CellLoop(_)
CellLoop(c) ==
  IF c > Len(mesh) THEN <<>>
  ELSE IF c \in locally_owned THEN <<c>>
  ELSE CellLoop(c + 1)

\* the first locally owned cell (0: no cell is owned)
FirstOwnedCell == IF CellLoop(1) = <<>> THEN 0 ELSE CellLoop(1)[1]

\* the double contraction of two 2x2 tensors
Contract(a, b) ==
  a[0, 0] * b[0, 0] + a[0, 1] * b[0, 1] + a[1, 0] * b[1, 0] + a[1, 1] * b[1, 1]

\* fe_values[displacement].symmetric_gradient(i, q) of the displacement shape
\* function of the model
eps_u_i == [ij \in Indices(2) |-> IF ij = <<0, 0>> THEN 1 ELSE 0]

\* mutant: the degradation uses the trial phase field in place of phi_e
CellRhsDegradesWithTrialPhi(c, plus, minus) ==
  LET phi == solution[c]
      S == Contract(plus, eps_u_i)
      M == Contract(minus, eps_u_i)
      T == Contract(plus, strain_tensor)
  IN [u |-> << phi * phi * S + 4 * M, (4 - phi * phi) * S >>,
      phi |-> << phi * T + gamma_c * (-e_inverse * (2 - phi)), -(phi * T) >>]

\* local_rhs of cell c after the loop over the quadrature points, for a
\* displacement shape function (xi_phi_i = 0) and for a phase-field shape
\* function (eps_u_i = 0, xi_phi_i = 1), with jxw = 1.  phi is constant on the
\* cell, so the gradient term vanishes.  The phase-field values are scaled by
\* 2: the entry u is 4 times and the entry phi 2 times the value of the code:
\*   u:   ((1 - kappa)*phi_e*phi_e + kappa)*(stress_plus*eps_u_i)
\*        + stress_minus*eps_u_i
\*   phi: (1 - kappa)*phi*(stress_plus*strain)*xi_phi_i
\*        + gamma_c*(-1/e*(1 - phi)*xi_phi_i)
CellRhs(c, plus, minus) ==
  LET d_phi == old_solution[c] - old_old_solution[c]
      phi_e == old_solution[c] + d_phi
      phi == solution[c]
      S == Contract(plus, eps_u_i)
      M == Contract(minus, eps_u_i)
      T == Contract(plus, strain_tensor)
  IN [u |-> << phi_e * phi_e * S + 4 * M, (4 - phi_e * phi_e) * S >>,
      phi |-> << phi * T + gamma_c * (-e_inverse * (2 - phi)), -(phi * T) >>]

\* the loop over the cells: the body runs for the cells of CellLoop, with the
\* stress decomposition of the strain at the quadrature point; local_rhs is
\* what it holds at the return
AssemblyLoop ==
  /\ cells_visited' = CellLoop(1)
  /\ IF CellLoop(1) = <<>>
       THEN /\ local_rhs' = Append(local_rhs, [u |-> <<0, 0>>, phi |-> <<0, 0>>])
            /\ UNCHANGED <<strain_tensor_plus, stress_tensor_plus, stress_tensor_minus>>
       ELSE \E eps_plus \in get_strain_tensor_plus(strain_tensor, dim) :
              LET plus == StressPlus(strain_tensor, eps_plus, dim)
                  minus == StressMinus(strain_tensor, eps_plus, dim)
              IN /\ strain_tensor_plus' = eps_plus
                 /\ stress_tensor_plus' = plus
                 /\ stress_tensor_minus' = minus
                 /\ local_rhs' = Append(local_rhs, CellRhs(FirstOwnedCell, plus, minus))

\* the strains whose positive part is an integer tensor
DeterminateStrains ==
  { t \in SymmetricTensors(2, (-MaxStrain)..MaxStrain) :
      Cardinality(get_strain_tensor_plus(t, 2)) = 1 }

\* a PhaseFieldSolver after setup_dofs, with any solution fields, on two cells
AssemblyInit ==
  /\ RunControlIdle
  /\ WorkersIdle
  /\ PressureIdle
  /\ data = Config(ParameterFileTable, 1, 10000000, 1, 0)
  /\ mesh = <<0, 0>>
  /\ solution \in Vectors(mesh)
  /\ old_solution \in Vectors(mesh)
  /\ old_old_solution \in Vectors(mesh)
  /\ spc = "idle"
  /\ dim = 2
  /\ strain_tensor \in DeterminateStrains
  /\ strain_tensor_plus = <<>>
  /\ stress_tensor_plus = <<>>
  /\ stress_tensor_minus = <<>>
  /\ apc = "input"
  /\ locally_owned \in SUBSET Dofs(mesh)
  /\ rhs_vector = ZeroVector(mesh)
  /\ local_rhs = <<>>
  /\ cells_visited = <<>>

\* mutant: the assembly stores the extrapolated phase field in old_solution
AssembleRhsVectorExtrapolatesInPlace ==
  /\ apc \in {"input", "once"}
  /\ AssemblyLoop
  /\ old_solution' = [c \in Dofs(mesh) |->
                        IF c = FirstOwnedCell
                          THEN old_solution[c] + (old_solution[c] - old_old_solution[c])
                          ELSE old_solution[c]]
  /\ apc' = IF apc = "input" THEN "once" ELSE "twice"
  /\ UNCHANGED <<locally_owned, rhs_vector>>
  /\ UNCHANGED <<spc, dim, strain_tensor>>
  /\ UNCHANGED <<pc, data, mesh, time, time_step, old_time_step, time_step_number,
                 solution, old_old_solution, use_old_time_step_phi,
                 active_set, old_active_set, newton_step, error,
                 pressure_owned_solution, exit_status, converged, refine_signalled,
                 n_shifts, step_sizes, n_cuts, ever_converged, log, diagnostic, ops, refine_ops>>
  /\ UNCHANGED <<workerVars, pressureVars>>

\* assemble_rhs_vector(): local_rhs is computed for the first owned cell, from
\* the stress decomposition of its strain, and dropped at the return; no member
\* of the solver is written
AssembleRhsVector ==
  /\ apc \in {"input", "once"}
  /\ AssemblyLoop
  /\ apc' = IF apc = "input" THEN "once" ELSE "twice"
  /\ UNCHANGED <<locally_owned, rhs_vector>>
  /\ UNCHANGED <<spc, dim, strain_tensor>>
  /\ UNCHANGED <<runVars, workerVars, pressureVars>>

AssemblyNext == AssembleRhsVector

AssemblySpec == AssemblyInit /\ [][AssemblyNext]_vars

----------------------------------------------------------------------------
(* The Newton loop of PDSSolid::run on several workers: every MPI process runs
   the same loop on its part of the mesh and meets the others in the collective
   calls *)

Workers == {1, 2}

\* worker w owns the degree of freedom w
OwnedDofs(w) == {w}

AllAt(place) == \A w \in Workers : w_pc[w] = place

\* residual_norm(): the norm of the distributed residual, reduced over the
\* workers (here its square, the sum of the workers' parts)
residual_norm == w_residual[1] + w_residual[2]

\* mutant: every worker compares only its own part of the active set
active_set_changed_per_partition(w) == w_active_set[w] # w_old_active_set[w]

\* active_set_changed(old_active_set), reduced over the workers: the set
\* changed if the part of any worker changed
active_set_changed_collective(w) ==
  \E v \in Workers : w_active_set[v] # w_old_active_set[v]

WorkerInit ==
  /\ RunControlIdle
  /\ StressIdle
  /\ AssemblyIdle
  /\ PressureIdle
  /\ data = Config(ParameterFileTable, 1, 10000000, MaxNewtonIterBound, 0)
  /\ mesh = <<>>
  /\ solution = <<>>
  /\ old_solution = <<>>
  /\ old_old_solution = <<>>
  /\ w_pc = [w \in Workers |-> "loop"]
  /\ w_newton_step = [w \in Workers |-> 0]
  /\ w_active_set \in [Workers -> SUBSET {1, 2}]
  /\ \A w \in Workers : w_active_set[w] \subseteq OwnedDofs(w)
  /\ w_old_active_set = w_active_set
  /\ w_residual = [w \in Workers |-> 0]
  /\ w_error = [w \in Workers |-> DoubleMax]
  /\ w_changed = [w \in Workers |-> FALSE]

\* while (newton_step < data.max_newton_iter) and if (newton_step > 0)
WorkerLoopHead(w) ==
  /\ w_pc[w] = "loop"
  /\ w_pc' = [w_pc EXCEPT ![w] =
               IF w_newton_step[w] < data.max_newton_iter
                 THEN (IF w_newton_step[w] > 0 THEN "evaluate" ELSE "solve")
                 ELSE "diverged"]
  /\ UNCHANGED <<w_newton_step, w_active_set, w_old_active_set, w_residual, w_error,
                 w_changed>>
  /\ UNCHANGED <<runVars, stressVars, assemblyVars, pressureVars>>

\* assemble_coupled_system, compute_active_set and set_zero on the worker's part
WorkerEvaluate(w) ==
  /\ w_pc[w] = "evaluate"
  /\ \E new_set \in SUBSET OwnedDofs(w), r \in 0..MaxError :
       /\ w_active_set' = [w_active_set EXCEPT ![w] = new_set]
       /\ w_residual' = [w_residual EXCEPT ![w] = r]
  /\ w_pc' = [w_pc EXCEPT ![w] = "norm"]
  /\ UNCHANGED <<w_newton_step, w_old_active_set, w_error, w_changed>>
  /\ UNCHANGED <<runVars, stressVars, assemblyVars, pressureVars>>

\* error = residual_norm(): a collective call, every worker gets the same value
ResidualNorm ==
  /\ AllAt("norm")
  /\ w_error' = [w \in Workers |-> residual_norm]
  /\ w_pc' = [w \in Workers |-> "changed"]
  /\ UNCHANGED <<w_newton_step, w_active_set, w_old_active_set, w_residual, w_changed>>
  /\ UNCHANGED <<runVars, stressVars, assemblyVars, pressureVars>>

\* active_set_changed(old_active_set)
ActiveSetChanged ==
  /\ AllAt("changed")
  /\ w_changed' = [w \in Workers |-> active_set_changed_collective(w)]
  /\ w_pc' = [w \in Workers |-> "test"]
  /\ UNCHANGED <<w_newton_step, w_active_set, w_old_active_set, w_residual, w_error>>
  /\ UNCHANGED <<runVars, stressVars, assemblyVars, pressureVars>>

\* the break condition, and old_active_set = active_set
WorkerTest(w) ==
  /\ w_pc[w] = "test"
  /\ IF w_changed[w] /\ w_error[w] < data.newton_tolerance
       THEN /\ w_pc' = [w_pc EXCEPT ![w] = "converged"]
            /\ UNCHANGED w_old_active_set
       ELSE /\ w_pc' = [w_pc EXCEPT ![w] = "solve"]
            /\ w_old_active_set' = [w_old_active_set EXCEPT ![w] = w_active_set[w]]
  /\ UNCHANGED <<w_newton_step, w_active_set, w_residual, w_error, w_changed>>
  /\ UNCHANGED <<runVars, stressVars, assemblyVars, pressureVars>>

\* solve_coupled_newton_step: the collective linear solve, then newton_step++
SolveCoupledNewtonStep ==
  /\ AllAt("solve")
  /\ w_newton_step' = [w \in Workers |-> w_newton_step[w] + 1]
  /\ w_pc' = [w \in Workers |-> "loop"]
  /\ UNCHANGED <<w_active_set, w_old_active_set, w_residual, w_error, w_changed>>
  /\ UNCHANGED <<runVars, stressVars, assemblyVars, pressureVars>>

WorkerNext ==
  \/ \E w \in Workers : WorkerLoopHead(w)
  \/ \E w \in Workers : WorkerEvaluate(w)
  \/ ResidualNorm
  \/ ActiveSetChanged
  \/ \E w \in Workers : WorkerTest(w)
  \/ SolveCoupledNewtonStep

WorkerSpec == WorkerInit /\ [][WorkerNext]_vars

----------------------------------------------------------------------------
(* PDSSolid::impose_pressure_values.  pressure_fe is FE_Q(1): the pressure
   degrees of freedom sit on the vertices of the mesh, and two neighbouring
   cells share the vertex between them.  In this section pressure_owned_solution
   has one entry per vertex, and solution holds the mean phase-field value of
   every cell. *)

\* the largest pressure value handed to impose_pressure_values
MaxPressure == 2

\* the vertices of the 1-D mesh m
PressureDofs(m) == 1..(Len(m) + 1)

\* pressure_cell->get_dof_indices(local_dof_indices): the two vertices of cell c
local_dof_indices(c) == {c, c + 1}

\* the orders in which an iterator can enumerate the cells of m
VisitOrders(m) ==
  { o \in [Dofs(m) -> Dofs(m)] : \A i, j \in Dofs(m) : o[i] = o[j] => i = j }

\* mutant: the loop over the degrees of freedom of a cell ends after the first
ImposeOnCellFirstDofOnly(p, c) ==
  IF c \in locally_owned
    THEN [d \in DOMAIN p |->
            IF d = c THEN impose_pressure_values(max_value, solution)[c] ELSE p[d]]
    ELSE p

\* the body of the loop over the cells: every degree of freedom of a locally
\* owned cell is assigned the value of the cell
ImposeOnCell(p, c) ==
  IF c \in locally_owned
    THEN [d \in DOMAIN p |->
            IF d \in local_dof_indices(c)
              THEN impose_pressure_values(max_value, solution)[c] ELSE p[d]]
    ELSE p

\* for (; pressure_cell != endc; ++pressure_cell, ++phi_cell)
RECURSIVE ImposeLoop(_, _, _)
ImposeLoop(p, order, i) ==
  IF i > Len(order) THEN p
  ELSE ImposeLoop(ImposeOnCell(p, order[i]), order, i + 1)

\* a PDSSolid after setup_dofs on a mesh of three cells, with any phase field,
\* any set of locally owned cells and any enumeration of the cells
PressureInit ==
  /\ RunControlIdle
  /\ StressIdle
  /\ WorkersIdle
  /\ data = Config(ParameterFileTable, 1, 10000000, 1, 0)
  /\ mesh = <<0, 0, 0>>
  /\ solution \in Vectors(mesh)
  /\ old_solution = ZeroVector(mesh)
  /\ old_old_solution = ZeroVector(mesh)
  /\ apc = "idle"
  /\ locally_owned \in SUBSET Dofs(mesh)
  /\ rhs_vector = <<>>
  /\ local_rhs = <<>>
  /\ cells_visited = <<>>
  /\ ipc = "input"
  /\ max_value \in 0..MaxPressure
  /\ visit_order \in VisitOrders(mesh)

\* the caller sizes the pressure vector (setup_dofs: reinit)
PressureSetup ==
  /\ ipc = "input"
  /\ pressure_owned_solution' = [d \in PressureDofs(mesh) |-> 0]
  /\ ipc' = "called"
  /\ UNCHANGED <<max_value, visit_order>>
  /\ UNCHANGED <<pc, data, mesh, time, time_step, old_time_step, time_step_number,
                 solution, old_solution, old_old_solution, use_old_time_step_phi,
                 active_set, old_active_set, newton_step, error,
                 exit_status, converged, refine_signalled,
                 n_shifts, step_sizes, n_cuts, ever_converged, log, diagnostic,
                 ops, refine_ops>>
  /\ UNCHANGED <<stressVars, assemblyVars, workerVars>>

\* impose_pressure_values(max_value)
ImposePressureValues ==
  /\ ipc = "called"
  /\ pressure_owned_solution' = ImposeLoop(pressure_owned_solution, visit_order, 1)
  /\ ipc' = "returned"
  /\ UNCHANGED <<max_value, visit_order>>
  /\ UNCHANGED <<pc, data, mesh, time, time_step, old_time_step, time_step_number,
                 solution, old_solution, old_old_solution, use_old_time_step_phi,
                 active_set, old_active_set, newton_step, error,
                 exit_status, converged, refine_signalled,
                 n_shifts, step_sizes, n_cuts, ever_converged, log, diagnostic,
                 ops, refine_ops>>
  /\ UNCHANGED <<stressVars, assemblyVars, workerVars>>

PressureNext ==
  \/ PressureSetup
  \/ ImposePressureValues

PressureSpec == PressureInit /\ [][PressureNext]_vars

----------------------------------------------------------------------------
(* Claims *)

\* the step of the model that evaluates convergence: an iteration after the first
Evaluation == pc = "newton" /\ newton_step > 0 /\ newton_step < data.max_newton_iter

\* the step of the model that cuts the time step
IsCut == pc = "after_newton" /\ StepDiverged /\ pc' = "redo"

\* the step of the model that redoes the time step on a refined mesh
IsRefinementRedo == pc = "after_newton" /\ ~StepDiverged /\ pc' = "redo"

NewtonBreaksOnChangedAndBelowTolerance ==
  [][Evaluation =>
       (converged' <=> (active_set' # old_active_set /\ error' < data.newton_tolerance))]_vars

\* C2: an attempt that used up max_newton_iter is followed either by a retry of
\* the same time step at a tenth of the step size, or, when that tenth is below
\* minimum_time_step, by the fatal error; nothing is accepted or written.
C2_DivergedIsCutOrFatal ==
  [][(pc = "after_newton" /\ newton_step = data.max_newton_iter) =>
       /\ log' = log
       /\ time_step_number' = time_step_number
       /\ \/ /\ 10 * data.minimum_time_step <= time_step
             /\ pc' = "redo"
             /\ 10 * time_step' = time_step
          \/ /\ time_step < 10 * data.minimum_time_step
             /\ pc' = "thrown"
             /\ time_step' = time_step]_vars

C2_Witness ==
  /\ pc = "newton"
  /\ n_cuts = 1
  /\ step_sizes = <<100, 10>>
  /\ time_step = 10

\* C3: with the table step 1e-2 and the minimum step 1e-9, a run in which no
\* attempt converges attempts the step sizes 1e-2, 1e-3, ..., each a tenth of
\* the one before, and the fatal error is raised after the attempt at 1e-9, the
\* eighth, when the next cut would give a step below 1e-9.
C3_GeometricCutsUntilFatal ==
  (/\ data.time_stepping_table = ParameterFileTable
   /\ data.minimum_time_step = 1
   /\ ~ever_converged
   /\ pc \notin {"start", "while"}) =>
     /\ \A i \in 1..Len(step_sizes) : step_sizes[i] * 10^(i - 1) = 10000000
     /\ Len(step_sizes) <= 8
     /\ n_cuts \in {Len(step_sizes) - 1, Len(step_sizes)}
     /\ (pc = "redo" <=> n_cuts = Len(step_sizes))
     /\ (pc \in {"thrown", "exited"} => (Len(step_sizes) = 8 /\ n_cuts = 7))
     /\ (pc = "after_newton" /\ Len(step_sizes) = 8 => time_step < 10 * data.minimum_time_step)

C3_Witness ==
  /\ pc = "thrown"
  /\ data.time_stepping_table = ParameterFileTable
  /\ ~ever_converged
  /\ step_sizes = <<10000000, 1000000, 100000, 10000, 1000, 100, 10, 1>>

\* C4 as stated: at every Newton attempt the step size is at least
\* minimum_time_step, whether it came from the table or from a cut.
C4_StepNeverBelowMinimum ==
  pc = "newton" => time_step >= data.minimum_time_step

\* C4 as amended: a cut never yields a step size below minimum_time_step, so at
\* every Newton attempt the step size is at least minimum_time_step unless the
\* time-stepping table itself gave this time step a smaller one.
C4_CutNeverBelowMinimum ==
  pc = "newton" =>
    /\ n_cuts > 0 => time_step >= data.minimum_time_step
    /\ step_sizes[1] >= data.minimum_time_step => time_step >= data.minimum_time_step
    /\ step_sizes[1] = get_time_step(time - time_step)

C4_Witness ==
  /\ pc = "newton"
  /\ n_cuts > 0
  /\ time_step = data.minimum_time_step

\* C5 as stated: the retried attempt runs at the same value of time as the
\* attempt that failed.
C5_RetrySameTime ==
  [][IsCut => time' = time]_vars

\* C5 as amended: the retried attempt belongs to the same time step and starts
\* from the same accepted time, and its target time is that accepted time plus
\* the reduced step: the failed target minus nine tenths of the failed step.
C5_RetrySameStartTime ==
  [][IsCut =>
       /\ time' - time_step' = time - time_step
       /\ 10 * (time - time') = 9 * time_step
       /\ time_step_number' = time_step_number]_vars

C5_Witness ==
  /\ pc = "newton"
  /\ n_cuts = 1
  /\ time_step_number = 2
  /\ time = 20
  /\ time_step = 10

\* C6: a step cut restores the trial solution to the old solution and leaves
\* old, old_old and the step counter alone; the history shift and the counter
\* increment happen once per time step, before its first attempt.
C6_CutRestoresOldAndKeepsHistory ==
  /\ [](n_shifts = time_step_number)
  /\ [][IsCut =>
          /\ solution' = old_solution
          /\ old_solution' = old_solution
          /\ old_old_solution' = old_old_solution
          /\ time_step_number' = time_step_number
          /\ n_shifts' = n_shifts]_vars
  /\ [][pc = "redo" => (solution' = solution /\ n_shifts' = n_shifts)]_vars

C6_Witness ==
  /\ pc = "redo"
  /\ n_cuts = 1
  /\ time_step_number = 2
  /\ solution = old_solution
  /\ old_solution # old_old_solution

\* C7: a refinement redo leaves time, the step size, old_time_step and the step
\* counter alone, shifts no history, and restarts the Newton solve at iteration 0
\* from the transferred current solution, not from the old solution.
C7_RefinementRedoSameStep ==
  /\ [][IsRefinementRedo =>
          /\ time' = time
          /\ time_step' = time_step
          /\ old_time_step' = old_time_step
          /\ time_step_number' = time_step_number
          /\ n_shifts' = n_shifts
          /\ n_cuts' = n_cuts
          /\ Len(solution') = Len(mesh')
          /\ \A c \in 1..Len(mesh) :
               \E d \in 1..Len(mesh') : d >= c /\ solution'[d] = solution[c]
          /\ {solution'[d] : d \in 1..Len(mesh')} = {solution[c] : c \in 1..Len(mesh)}]_vars
  /\ [][pc = "redo" => (newton_step' = 0 /\ solution' = solution)]_vars

C7_Witness ==
  /\ pc = "newton"
  /\ refine_signalled
  /\ newton_step = 0
  /\ Len(mesh) = 2
  /\ solution = <<0, 0>>
  /\ old_solution = <<2, 2>>

\* the log of an accepted run: width, output, postprocessing for step 1, then
\* the same for step 2, ...
LogKinds == <<"width", "output", "postprocessing">>

LogInOrder ==
  \A i \in 1..Len(log) : log[i] = <<LogKinds[((i - 1) % 3) + 1], ((i - 1) \div 3) + 1>>

\* C8: the width solve, output_results and execute_postprocessing run in this
\* order, once per step number, only after an attempt that converged and after
\* which no refinement was signalled; never for a diverged attempt or one about
\* to be redone.
C8_AcceptedOnlyAfterConvergedUnrefined ==
  /\ [](LogInOrder)
  /\ [](pc \in {"while", "done"} => Len(log) = 3 * time_step_number)
  /\ [](pc \in {"redo", "newton", "after_newton"} => Len(log) = 3 * (time_step_number - 1))
  /\ [][log' # log =>
          /\ converged
          /\ newton_step < data.max_newton_iter
          /\ ~(data.n_adaptive_steps > 0 /\ prepare_phase_field_refinement(solution, mesh))
          /\ pc' \notin {"redo", "thrown"}
          /\ UNCHANGED <<time, time_step, time_step_number, solution>>]_vars

C8_Witness ==
  /\ pc = "done"
  /\ Len(log) = 6
  /\ time_step_number = 2
  /\ time_step = 2

\* C9: once the fatal error is raised nothing more is solved or written: the
\* only step left is main's handler, which prints the diagnostic and returns a
\* non-zero status; the outputs of earlier accepted steps stay.
C9_FatalIsFinal ==
  /\ [][pc = "thrown" =>
          /\ pc' = "exited"
          /\ diagnostic'
          /\ exit_status' # 0
          /\ UNCHANGED <<log, time, time_step, time_step_number, solution, n_shifts,
                         step_sizes, newton_step>>]_vars
  /\ [][pc = "exited" => UNCHANGED vars]_vars
  /\ [](pc = "exited" => (diagnostic <=> exit_status # 0))

C9_Witness ==
  /\ pc = "exited"
  /\ exit_status = 1
  /\ diagnostic
  /\ Len(log) = 3
  /\ time_step_number = 2

\* C10: for every symmetric strain tensor, 2x2 or 3x3, and whatever positive
\* part was used, stress_plus + stress_minus equals 2*mu*strain +
\* lambda*trace(strain)*I entry by entry.
C10_PlusAndMinusSumToElasticStress ==
  spc = "returned" =>
    \A ij \in Indices(dim) :
      stress_tensor_plus[ij] + stress_tensor_minus[ij]
        = 2 * mu * strain_tensor[ij]
          + (IF ij[1] = ij[2] THEN lambda * trace(strain_tensor, dim) ELSE 0)

\* the same for 2x2 tensors only
Stress2DSumsToElasticStress ==
  dim = 2 => C10_PlusAndMinusSumToElasticStress

\* C11: for every strain tensor without negative eigenvalues stress_minus is the
\* zero tensor, and for the zero strain stress_plus is the zero tensor as well.
C11_NonNegativeStrainHasZeroMinus ==
  (spc = "returned" /\ PositiveSemidefinite(strain_tensor, dim)) =>
    /\ stress_tensor_minus = ZeroTensor(dim)
    /\ strain_tensor = ZeroTensor(dim) => stress_tensor_plus = ZeroTensor(dim)

C11_Witness ==
  /\ spc = "returned"
  /\ dim = 3
  /\ PositiveSemidefinite(strain_tensor, 3)
  /\ strain_tensor[0, 1] = 1
  /\ strain_tensor[2, 2] = 1
  /\ stress_tensor_plus[0, 0] = 2 * mu + 3 * lambda
  /\ stress_tensor_minus = ZeroTensor(3)

\* C15: the pressure field handed to a Newton solve is the value of the
\* time-pressure curve in the cells whose phase-field value is below the
\* threshold and zero in every other cell.
C15_PressureFollowsCrackIndicator ==
  (pc = "newton" /\ newton_step = 0) =>
    pressure_owned_solution = impose_pressure_values(pressure_function(time), solution)

\* what run() does: every cell carries the value of the time-pressure curve
PressureIsUniform ==
  pc = "newton" => \A c \in Dofs(mesh) : pressure_owned_solution[c] = pressure_function(time)

\* the index, after refinement, of the cell c, or of its first child
NewIndex(c, flags) == c + Cardinality({f \in flags : f < c})

\* w is v carried over to the refined mesh: an unrefined cell keeps its value
\* and both children of a refined cell take the value of the cell
Transferred(v, w, flags) ==
  /\ Len(w) = Len(v) + Cardinality(flags)
  /\ \A c \in 1..Len(v) :
       /\ w[NewIndex(c, flags)] = v[c]
       /\ c \in flags => w[NewIndex(c, flags) + 1] = v[c]

\* C16: after exectute_adaptive_refinement each of solution, old_solution and
\* old_old_solution holds the interpolation of its own values from before the
\* refinement, none of them another's or the zeros of setup_dofs; in the cells
\* that were not refined old and old_old keep their values.
C16_TransferKeepsEachVector ==
  [][IsRefinementRedo =>
       LET flags == RefineFlags(solution, mesh)
       IN /\ flags # {}
          /\ Len(mesh') = Len(mesh) + Cardinality(flags)
          /\ Transferred(solution, solution', flags)
          /\ Transferred(old_solution, old_solution', flags)
          /\ Transferred(old_old_solution, old_old_solution', flags)]_vars

C16_Witness ==
  /\ pc = "redo"
  /\ refine_signalled
  /\ mesh = <<1, 1, 0>>
  /\ solution = <<0, 0, 2>>
  /\ old_solution = <<2, 2, 0>>
  /\ old_old_solution = <<0, 0, 0>>

\* C17: in every mesh the run reaches, after the global refinement, after each
\* pass of the local pre-refinement and after every adaptive refinement, the
\* level of every cell is at most initial_refinement_level + n_adaptive_steps.
C17_LevelAtMostInitialPlusAdaptive ==
  \A c \in 1..Len(mesh) :
    mesh[c] <= data.initial_refinement_level + data.n_adaptive_steps

C17_Witness ==
  /\ pc = "redo"
  /\ refine_signalled
  /\ data.n_adaptive_steps = 1
  /\ mesh = <<1, 1, 1, 1>>

\* the model stops following the run after MaxTimeSteps time steps
HorizonReached ==
  pc = "while" /\ time_step_number = MaxTimeSteps /\ time < data.t_max

TablePositive ==
  \A i \in 1..Len(data.time_stepping_table) : data.time_stepping_table[i][2] > 0

\* the fatal error is raised only at the iteration cap and the step-size floor
FatalOnlyAtCapAndFloor ==
  [][(pc # "thrown" /\ pc' = "thrown") =>
       /\ pc = "after_newton"
       /\ newton_step = data.max_newton_iter
       /\ time_step < 10 * data.minimum_time_step]_vars

\* C19 as stated: with a positive table step size (the refiner of the model
\* flags only cells below the maximum level) every attempt is followed by the
\* acceptance of the time step or by the fatal error, the run ends with
\* time >= t_max or with the fatal error, and the fatal error is raised only at
\* the iteration cap and the step-size floor.
C19_RunTerminates ==
  /\ (pc = "redo" /\ TablePositive) ~> (pc \in {"output", "thrown"})
  /\ <>(~TablePositive \/ pc = "exited" \/ HorizonReached)
  /\ [](pc = "done" => time >= data.t_max)
  /\ [](pc = "exited" => (exit_status = 0 /\ time >= data.t_max) \/ diagnostic)
  /\ FatalOnlyAtCapAndFloor

\* with a floor every attempt has a positive step size, so that an accepted
\* time step advances time, and every cut makes the step size smaller
StepsMakeProgress ==
  /\ []((pc \in {"redo", "newton", "after_newton", "output", "postprocessing"}
         /\ TablePositive /\ data.minimum_time_step > 0) => time_step > 0)
  /\ [][(IsCut /\ data.minimum_time_step > 0) => time_step' < time_step]_vars

\* C19 as amended: the same, for a positive minimum_time_step.
C19_RunTerminatesWithFloor ==
  /\ StepsMakeProgress
  /\ (pc = "redo" /\ TablePositive /\ data.minimum_time_step > 0)
       ~> (pc \in {"output", "thrown"})
  /\ <>(~TablePositive \/ data.minimum_time_step <= 0 \/ pc = "exited" \/ HorizonReached)
  /\ [](pc = "done" => time >= data.t_max)
  /\ [](pc = "exited" => (exit_status = 0 /\ time >= data.t_max) \/ diagnostic)
  /\ FatalOnlyAtCapAndFloor

C19_Witness ==
  /\ pc = "exited"
  /\ exit_status = 0
  /\ data.n_adaptive_steps = 1
  /\ data.minimum_time_step > 0
  /\ mesh = <<1, 1>>
  /\ old_solution = <<0, 0>>
  /\ time >= data.t_max

\* the calls of the evaluation of iteration k, up to the residual norm
EvaluationCalls(k) ==
  << <<k, "assemble_coupled_system", "include_pressure = true, assemble_matrix = false">>,
     <<k, "compute_active_set", "">>,
     <<k, "all_constraints.set_zero", "residual">>,
     <<k, "residual_norm", "">> >>

\* the calls of the iterations 0 .. n-1, each of which ended in a linear solve
RECURSIVE IterationsBefore(_)
IterationsBefore(n) ==
  IF n = 0 THEN <<>>
  ELSE IterationsBefore(n - 1)
       \o (IF n = 1 THEN <<>>
           ELSE EvaluationCalls(n - 1) \o << <<n - 1, "break condition", "">> >>)
       \o << <<n - 1, "solve_coupled_newton_step", "">> >>

\* C20: every attempt starts at iteration 0; iteration 0 is a linear solve and
\* nothing else; every later iteration calls the residual-only assembly with
\* include_pressure = true, compute_active_set, the zeroing of the residual at
\* the constrained degrees of freedom and the residual norm, in this order,
\* then tests for convergence, and only then, if at all, solves.
C20_IterationOrder ==
  /\ [](pc \in {"newton", "after_newton", "output", "postprocessing"} =>
         ops = IterationsBefore(newton_step)
               \o (IF converged
                     THEN EvaluationCalls(newton_step)
                          \o << <<newton_step, "break condition", "break">> >>
                     ELSE <<>>))
  /\ [](converged /\ pc = "after_newton" => newton_step > 0)
  /\ [][pc = "redo" => (newton_step' = 0 /\ ops' = <<>> /\ pc' = "newton")]_vars

C20_Witness ==
  /\ pc = "after_newton"
  /\ converged
  /\ newton_step = 2
  /\ Len(ops) = 12
  /\ ops[1] = <<0, "solve_coupled_newton_step", "">>
  /\ ops[12] = <<2, "break condition", "break">>

\* C18: assemble_rhs_vector leaves solution, old_solution and old_old_solution
\* as they were, and a second call on the same inputs computes what the first
\* call computed.
C18_AssemblyLeavesSolutionFields ==
  /\ [][apc' # apc =>
          UNCHANGED <<solution, old_solution, old_old_solution, rhs_vector>>]_vars
  /\ [](apc = "twice" => local_rhs[2] = local_rhs[1])

C18_Witness ==
  /\ apc = "twice"
  /\ locally_owned = {2}
  /\ solution = <<2, 0>>
  /\ old_solution = <<0, 2>>
  /\ old_old_solution = <<2, 0>>
  /\ strain_tensor[0, 0] = 1
  /\ strain_tensor[0, 1] = 0
  /\ strain_tensor[1, 1] = 0
  /\ local_rhs[1] = [u |-> <<16032000, -12024000>>, phi |-> <<-2000000, 0>>]
  /\ local_rhs[2] = local_rhs[1]

\* the places of a worker inside an iteration whose test did not break
InsideLoop == {"evaluate", "norm", "changed", "test", "solve"}

\* C14: at every Newton iteration all workers take the same branch: the break
\* condition is evaluated on the reduced residual norm and the reduced
\* active-set change, so no worker leaves the loop, converged or diverged,
\* while another enters the linear solve or goes on iterating.
C14_WorkersTakeSameBranch ==
  \A v, w \in Workers :
    /\ ~(w_pc[v] = "converged" /\ w_pc[w] \in {"solve", "loop", "diverged"})
    /\ ~(w_pc[v] = "diverged" /\ w_pc[w] \in InsideLoop)
    /\ (w_pc[v] \in {"test", "converged"} /\ w_pc[w] = "test") =>
         (w_error[v] = w_error[w] /\ w_changed[v] = w_changed[w])

C14_Witness ==
  /\ AllAt("converged")
  /\ w_active_set[1] # w_old_active_set[1]
  /\ w_active_set[2] = w_old_active_set[2]
  /\ w_newton_step[1] = 2

\* C21: an attempt is treated as not converged iff its Newton counter reached
\* max_newton_iter: an attempt that left the loop through the break is never
\* cut and never ends in the fatal error, and an attempt that used up the
\* budget is cut or fatal, never accepted and never handed to the refiner.
C21_DivergedIffBudgetExhausted ==
  /\ [](pc = "after_newton" => (converged <=> newton_step # data.max_newton_iter))
  /\ [](pc = "after_newton" /\ converged =>
          (newton_step > 0 /\ newton_step < data.max_newton_iter))
  /\ [][(pc = "after_newton" /\ converged) =>
          /\ pc' \in {"redo", "output"}
          /\ UNCHANGED <<time, time_step, n_cuts, use_old_time_step_phi>>
          /\ pc' = "redo" => (refine_signalled' /\ mesh' # mesh)]_vars
  /\ [][(pc = "after_newton" /\ ~converged) =>
          /\ pc' \in {"redo", "thrown"}
          /\ UNCHANGED <<log, mesh, refine_signalled, old_solution, old_old_solution>>
          /\ pc' = "redo" => (CutFactor * time_step' = time_step /\ n_cuts' = n_cuts + 1)]_vars

C21_Witness ==
  /\ pc = "after_newton"
  /\ converged
  /\ n_cuts = 1
  /\ Len(step_sizes) = 2
  /\ newton_step = data.max_newton_iter - 1
  /\ data.n_adaptive_steps = 1

\* the step of the model in which the refiner is asked
RefinerQueried == refine_ops' # refine_ops /\ refine_ops' # <<>>

\* C22: prepare_phase_field_refinement is called only after an attempt that left
\* the Newton loop through the break and only when n_adaptive_steps > 0, never
\* after an attempt that used up the budget; with n_adaptive_steps = 0 the
\* refiner is never asked and no time step is redone on a refined mesh.
C22_RefinerOnlyAfterConverged ==
  /\ [][RefinerQueried =>
          /\ pc = "after_newton"
          /\ converged
          /\ newton_step < data.max_newton_iter
          /\ data.n_adaptive_steps > 0
          /\ refine_ops'[1] = "prepare_phase_field_refinement"]_vars
  /\ [][(pc = "after_newton" /\ newton_step = data.max_newton_iter) =>
          (refine_ops' = <<>> /\ mesh' = mesh /\ refine_signalled' = refine_signalled)]_vars
  /\ [][IsRefinementRedo => (data.n_adaptive_steps > 0 /\ converged /\ RefinerQueried)]_vars
  /\ [](data.n_adaptive_steps = 0 =>
          (refine_ops = <<>> /\ ~refine_signalled /\ Len(mesh) \in {0, data.n_coarse_cells}))

C22_Witness ==
  /\ pc = "output"
  /\ converged
  /\ data.n_adaptive_steps = 1
  /\ refine_ops = << "prepare_phase_field_refinement" >>
  /\ mesh = <<1, 1>>
  /\ n_cuts = 1

\* C23: when the refiner answers 'needed', exectute_adaptive_refinement
\* registers the current, old and old_old vectors with the solution transfer,
\* then executes the coarsening and refinement, then rebuilds the maps with
\* setup_dofs, and only then interpolates the three registered vectors onto the
\* new maps; all of this is done when the attempt on the refined mesh starts,
\* and no Newton iteration runs in between.
C23_TransferProtocolOrder ==
  /\ [][IsRefinementRedo =>
          LET flags == RefineFlags(solution, mesh)
          IN /\ refine_ops' = << "prepare_phase_field_refinement",
                                 "prepare_for_coarsening_and_refinement",
                                 "execute_coarsening_and_refinement",
                                 "setup_dofs",
                                 "interpolate" >>
             /\ mesh' = execute_coarsening_and_refinement(mesh, flags)
             /\ solution' = interpolate(solution, flags)
             /\ old_solution' = interpolate(old_solution, flags)
             /\ old_old_solution' = interpolate(old_old_solution, flags)
             /\ UNCHANGED <<newton_step, ops>>]_vars
  /\ [][(pc = "redo" /\ refine_ops # <<>>) =>
          (pc' = "newton" /\ newton_step' = 0 /\ refine_ops' = <<>>
           /\ UNCHANGED <<mesh, solution, old_solution, old_old_solution>>)]_vars
  /\ [](pc = "newton" =>
          /\ refine_ops = <<>>
          /\ Len(solution) = Len(mesh)
          /\ Len(old_solution) = Len(mesh)
          /\ Len(old_old_solution) = Len(mesh))

C23_Witness ==
  /\ pc = "redo"
  /\ Len(refine_ops) = 5
  /\ refine_ops[5] = "interpolate"
  /\ mesh = <<0, 1, 1>>
  /\ solution = <<2, 0, 0>>
  /\ old_solution = <<0, 2, 2>>
  /\ old_old_solution = <<0, 0, 0>>

\* the step of the model that starts a new time step
IsNewTimeStep == pc = "while" /\ pc' = "redo"

\* the places of run() inside an attempt
InAttempt == pc \in {"redo", "newton", "after_newton"}

\* C24: a cut lasts for one time step: every new time step draws its step size
\* from the table at the current time, whatever the last step was cut to; the
\* second member of the pair handed to the Newton solve is the step size the
\* last accepted step ended with, cut or not (for the first step the table
\* value at time 0), and it is the same in every attempt of one time step.
C24_CutIsTransient ==
  /\ [][IsNewTimeStep =>
          /\ time_step' = get_time_step(time)
          /\ time' = time + time_step'
          /\ old_time_step' = old_time_step]_vars
  /\ [](InAttempt /\ time_step_number = 1 => time_steps[2] = get_time_step(0))
  /\ [][InAttempt => old_time_step' = old_time_step]_vars
  /\ [][pc = "start" => old_time_step' = get_time_step(0)]_vars
  /\ [][(pc # "start" /\ old_time_step' # old_time_step) =>
          /\ pc = "postprocessing"
          /\ old_time_step' = time_step
          /\ time_step = step_sizes[Len(step_sizes)]
          /\ CutFactor^n_cuts * time_step = step_sizes[1]
          /\ time_step' = time_step]_vars
  /\ [][pc = "postprocessing" => old_time_step' = time_step]_vars
  /\ [](pc = "newton" => time_steps[1] = step_sizes[Len(step_sizes)])

C24_Witness ==
  /\ pc = "newton"
  /\ time_step_number = 2
  /\ n_cuts = 0
  /\ time_steps = <<100, 10>>
  /\ time = 110

\* the value line 366 computes for cell c
CellPressure(c) == IF 5 * solution[c] < 9 THEN max_value ELSE 0

OwnedCellsAt(d) == { c \in locally_owned : d \in local_dof_indices(c) }

\* the place of cell c in the enumeration
VisitIndex(c) == CHOOSE i \in DOMAIN visit_order : visit_order[i] = c

\* the cell of OwnedCellsAt(d) that is visited last
LastOwnedCellAt(d) ==
  CHOOSE c \in OwnedCellsAt(d) :
    \A b \in OwnedCellsAt(d) : VisitIndex(b) <= VisitIndex(c)

C26_EveryOwnedCellVisitedOnce ==
  apc \in {"once", "twice"} =>
    /\ {cells_visited[i] : i \in DOMAIN cells_visited} = locally_owned
    /\ Len(cells_visited) = Cardinality(locally_owned)

\* what the loop does: its body runs for the first locally owned cell only, and
\* nothing is added to rhs_vector
OnlyFirstOwnedCellVisited ==
  apc \in {"once", "twice"} =>
    /\ cells_visited = (IF FirstOwnedCell = 0 THEN <<>> ELSE <<FirstOwnedCell>>)
    /\ rhs_vector = ZeroVector(mesh)

\* C27: the factor of stress_plus in the displacement rows of local_rhs is
\* (1 - kappa)*phi_e^2 + kappa with phi_e = phi_old + (phi_old - phi_old_old):
\* the rows are determined by the old and the old_old phase field and the
\* stresses alone, whatever the trial phase field and the time steps.
C27_DegradationUsesExtrapolatedPhi ==
  (apc \in {"once", "twice"} /\ FirstOwnedCell # 0) =>
    LET c == FirstOwnedCell
        phi_e == old_solution[c] + (old_solution[c] - old_old_solution[c])
        S == Contract(stress_tensor_plus, eps_u_i)
        M == Contract(stress_tensor_minus, eps_u_i)
    IN \A k \in DOMAIN local_rhs :
         \* 4*((1 - kappa)*phi_e^2 + kappa)*S + 4*M, phi_e in halves
         /\ local_rhs[k].u[1] + local_rhs[k].u[2] = 4 * S + 4 * M
         /\ local_rhs[k].u[1] = phi_e * phi_e * S + 4 * M

C27_Witness ==
  /\ apc = "once"
  /\ locally_owned = {1, 2}
  /\ solution = <<0, 2>>
  /\ old_solution = <<2, 0>>
  /\ old_old_solution = <<0, 2>>
  /\ strain_tensor[0, 0] = 1
  /\ strain_tensor[0, 1] = 1
  /\ strain_tensor[1, 1] = 1
  /\ stress_tensor_plus[0, 0] = 2 * mu + 2 * lambda
  /\ local_rhs[1].u = <<16 * (2 * mu + 2 * lambda), -12 * (2 * mu + 2 * lambda)>>

\* C28: in every attempt time is the time of the last accepted step plus the
\* current step size: a new time step starts from the accepted time, every
\* redo, cut or refinement, keeps the start time = time - time_step, after k
\* cuts the step size is the first one divided by 10^k, and the step is
\* accepted at the time and step size of the attempt that converged.
C28_TimeIsAcceptedTimePlusStep ==
  /\ [][IsNewTimeStep => time' - time_step' = time]_vars
  /\ [][(InAttempt /\ pc' \in {"redo", "newton", "after_newton", "output"}) =>
          time' - time_step' = time - time_step]_vars
  /\ [][(IsCut \/ IsRefinementRedo \/ IsNewTimeStep) => pc' = "redo"]_vars
  /\ [][(pc \in {"redo", "newton", "output", "postprocessing"}) =>
          UNCHANGED <<time, time_step>>]_vars
  /\ [](InAttempt /\ step_sizes # <<>> =>
          step_sizes[1] = get_time_step(time - time_step))
  /\ [](pc = "newton" =>
          /\ time_step = step_sizes[Len(step_sizes)]
          /\ CutFactor^n_cuts * time_step = step_sizes[1])

C28_Witness ==
  /\ pc = "output"
  /\ time_step_number = 2
  /\ n_cuts = 1
  /\ step_sizes = <<100, 10>>
  /\ time = 20
  /\ time_step = 10

\* the places of ops that hold the call named op
CallsOf(op) == { i \in DOMAIN ops : ops[i][2] = op }

\* what C29 says of the attempts: a converged attempt made between 1 and
\* max_newton_iter - 1 linear solves, the break condition is tested only in
\* the iterations 1 .. max_newton_iter - 1, an attempt that used up the budget
\* ends with a linear solve whose result is not tested, and with
\* max_newton_iter <= 1 no attempt converges
ConvergedWithinBudget ==
  /\ [](pc \in {"newton", "after_newton"} =>
          /\ Cardinality(CallsOf("solve_coupled_newton_step")) = newton_step
          /\ \A i \in CallsOf("break condition") :
               ops[i][1] >= 1 /\ ops[i][1] <= data.max_newton_iter - 1)
  /\ [](pc = "after_newton" /\ converged =>
          /\ Cardinality(CallsOf("solve_coupled_newton_step")) >= 1
          /\ Cardinality(CallsOf("solve_coupled_newton_step")) <= data.max_newton_iter - 1)
  /\ [](pc = "after_newton" /\ ~converged /\ data.max_newton_iter >= 1 =>
          ops[Len(ops)] = <<data.max_newton_iter - 1, "solve_coupled_newton_step", "">>)
  /\ [](data.max_newton_iter <= 1 => (~converged /\ ~ever_converged /\ log = <<>>))

\* the run ended in the fatal error
EndedFatally == pc = "exited" /\ exit_status = 1 /\ diagnostic

\* C29 as stated: a converged attempt made between 1 and max_newton_iter - 1
\* linear solves, and with max_newton_iter <= 1 every run with t_max > 0 ends
\* in fatal non-convergence.
C29_NoConvergenceWithOneIteration ==
  /\ ConvergedWithinBudget
  /\ <>(~(data.max_newton_iter <= 1 /\ data.t_max > 0) \/ EndedFatally)

\* C29 as amended: the same, the run ending in fatal non-convergence when in
\* addition minimum_time_step is positive.
C29_NoConvergenceWithOneIterationAndFloor ==
  /\ ConvergedWithinBudget
  /\ <>(~(data.max_newton_iter <= 1 /\ data.t_max > 0 /\ data.minimum_time_step > 0)
        \/ EndedFatally)
  /\ [](data.max_newton_iter <= 1 /\ pc = "exited" /\ data.t_max > 0 => EndedFatally)

C29_Witness ==
  /\ EndedFatally
  /\ data.max_newton_iter = 1
  /\ data.minimum_time_step = 5
  /\ data.t_max = 120
  /\ step_sizes = <<100, 10>>
  /\ ops = << <<0, "solve_coupled_newton_step", "">> >>

\* an attempt that converged after the most linear solves the cap allows
ConvergedAtLastTest ==
  /\ pc = "after_newton"
  /\ converged
  /\ data.max_newton_iter = 2
  /\ newton_step = 1

\* C30: the previous active set of the convergence test is the set the solver
\* held when the attempt started (what the previous attempt or time step left)
\* at the first evaluation, iteration 1, and the set of the preceding
\* evaluation of the same attempt afterwards: it is copied from the current
\* set at the start of an attempt and after every evaluation that does not
\* converge, and nowhere else.
C30_PreviousActiveSet ==
  /\ [][pc = "redo" => (old_active_set' = active_set /\ active_set' = active_set)]_vars
  /\ [][(IsCut \/ IsNewTimeStep) => active_set' = active_set]_vars
  /\ [][(pc = "newton" /\ newton_step = 0) =>
          UNCHANGED <<active_set, old_active_set>>]_vars
  /\ [][Evaluation =>
          /\ converged' <=>
               (active_set_changed(active_set', old_active_set)
                /\ error' < data.newton_tolerance)
          /\ converged' => old_active_set' = old_active_set
          /\ ~converged' => old_active_set' = active_set']_vars
  /\ [][old_active_set' # old_active_set =>
          (pc = "redo" \/ (Evaluation /\ ~converged'))]_vars
  /\ [](pc = "newton" => old_active_set = active_set)

C30_Witness ==
  /\ pc = "newton"
  /\ newton_step = 1
  /\ n_cuts = 1
  /\ Len(mesh) = 2
  /\ active_set = {2}
  /\ old_active_set = {2}

\* C31: the pressure field is imposed anew at the start of every attempt, first
\* attempts and redos after a step cut or a refinement alike: the start of an
\* attempt writes the value of the pressure curve at the attempt's time into
\* every pressure degree of freedom of the current mesh, nothing writes the
\* pressure, the time or the mesh while the Newton loop runs, and a cut lowers
\* the time, so that at every Newton solve every pressure degree of freedom
\* holds the value of the curve at the (after a cut, reduced) target time.
C31_PressureReimposedEveryAttempt ==
  /\ [][pc = "redo" =>
          /\ pressure_owned_solution' = [c \in Dofs(mesh) |-> pressure_function(time)]
          /\ UNCHANGED <<time, time_step, mesh>>
          /\ pc' = "newton"]_vars
  /\ [][pc = "newton" => UNCHANGED <<pressure_owned_solution, time, mesh>>]_vars
  /\ [][pc' = "newton" => pc \in {"redo", "newton"}]_vars
  /\ [][IsCut => (time' < time /\ time' - time_step' = time - time_step)]_vars
  /\ [](pc = "newton" =>
          /\ DOMAIN pressure_owned_solution = Dofs(mesh)
          /\ \A c \in Dofs(mesh) : pressure_owned_solution[c] = pressure_function(time))

C31_Witness ==
  /\ pc = "newton"
  /\ n_cuts = 1
  /\ step_sizes = <<100, 10, 10>>
  /\ time = 10
  /\ mesh = <<1, 1>>
  /\ refine_signalled
  /\ pressure_owned_solution = <<31, 31>>

====
